---------------------------- MODULE Spec2Model ----------------------------
(***************************************************************************)
(* Air-quality pipeline: fetch_aqi_data (credential resolution, the        *)
(* locations lookup, the per-site measurement queries, the direct          *)
(* fallback chain), clean_data, and the caller's handling in app.py.       *)
(*                                                                         *)
(* Python values are tagged records: [k |-> "none"], [k |-> "text", c],    *)
(* [k |-> "str", s], [k |-> "num", n, d], [k |-> "nan"], [k |-> "obj", f], *)
(* [k |-> "ts", t], [k |-> "nat"].  A text is a sequence of one-character  *)
(* strings so that lower(), strip() and the substring test are computed.   *)
(* A JSON dict is a function from key names to values.                     *)
(***************************************************************************)
EXTENDS Integers, Sequences, FiniteSets, TLC

VARIABLES
    pc,                \* position in get_cached_data / fetch_aqi_data
    city,              \* the city handed to fetch_aqi_data
    credential,        \* get_api_key's local api_key at the validation
    api_key,           \* the key fetch_aqi_data got back
    issued,            \* how many requests of each kind were issued so far
    request,           \* the most recent request
    response,          \* outcome of the most recent requests.get
    lookup,            \* how the locations call was answered
    tried,             \* how each direct attempt was answered, in order
    locations,         \* fetch_measurements_direct's local: candidate sites
    site,              \* _get_measurements_for_locations: index of the loop
    all_measurements,  \* _get_measurements_for_locations: accumulated records
    attempt,           \* fetch_measurements_direct: i of the strategies loop
    raw_data,          \* the frame fetch_aqi_data returned
    df,                \* the frame clean_data returned
    error,             \* the exception that reached the caller
    view               \* what the caller rendered

vars == <<pc, city, credential, api_key, issued, request, response, lookup, tried,
          locations, site, all_measurements, attempt, raw_data, df, error, view>>

---------------------------------------------------------------------------
(* Values *)

None == [k |-> "none"]
NaN == [k |-> "nan"]
NaT == [k |-> "nat"]
Text(c) == [k |-> "text", c |-> c]
Str(s) == [k |-> "str", s |-> s]
Frac(n, d) == [k |-> "num", n |-> n, d |-> d]
Num(n) == Frac(n, 1)
Obj(f) == [k |-> "obj", f |-> f]
Ts(t) == [k |-> "ts", t |-> t]

\* isinstance(x, dict) for an element of a JSON list: a tagged value is not one
IsDict(x) == "k" \notin DOMAIN x

\* dict.get(key), default None
Get(d, key) == IF key \in DOMAIN d THEN d[key] ELSE None

\* Python truthiness of a value
Truthy(v) ==
    CASE v.k = "none" -> FALSE
      [] v.k = "nan" -> TRUE
      [] v.k = "text" -> Len(v.c) > 0
      [] v.k = "str" -> v.s # ""
      [] v.k = "num" -> v.n # 0
      [] v.k = "obj" -> DOMAIN v.f # {}
      [] OTHER -> TRUE

---------------------------------------------------------------------------
(* Texts *)

ToLower ==
    [ch \in {"A", "D", "E", "I", "L", "N", "O", "P", "R", "S", "W"} |->
        CASE ch = "A" -> "a" [] ch = "D" -> "d" [] ch = "E" -> "e"
          [] ch = "I" -> "i" [] ch = "L" -> "l" [] ch = "N" -> "n"
          [] ch = "O" -> "o" [] ch = "P" -> "p" [] ch = "R" -> "r"
          [] ch = "S" -> "s" [] ch = "W" -> "w"]

\* str.lower()
Lower(s) == [i \in 1..Len(s) |-> IF s[i] \in DOMAIN ToLower THEN ToLower[s[i]] ELSE s[i]]

\* needle in hay
Contains(hay, needle) ==
    \E i \in 0..(Len(hay) - Len(needle)) : SubSeq(hay, i + 1, i + Len(needle)) = needle

IsSpace(ch) == ch \in {" ", "\t", "\n"}

RECURSIVE LStrip(_)
LStrip(s) == IF s # <<>> /\ IsSpace(Head(s)) THEN LStrip(Tail(s)) ELSE s

RECURSIVE RStrip(_)
RStrip(s) ==
    IF s # <<>> /\ IsSpace(s[Len(s)]) THEN RStrip(SubSeq(s, 1, Len(s) - 1)) ELSE s

\* str.strip()
Strip(s) == RStrip(LStrip(s))

London == <<"L", "o", "n", "d", "o", "n">>
Paris == <<"P", "a", "r", "i", "s">>
\* a custom city name, typed into the text input
StLouis == <<"S", "t", ".", " ", "L", "o", "u", "i", "s">>

Cities == {London, Paris, StLouis}

---------------------------------------------------------------------------
(* str() of a value, as far as the substring tests can see it *)

RECURSIVE StrOf(_), Repr(_, _)
StrOf(v) ==
    CASE v.k = "text" -> v.c
      [] v.k = "none" -> <<"N", "o", "n", "e">>
      [] v.k = "nan" -> <<"n", "a", "n">>
      [] v.k = "obj" -> Repr(v.f, DOMAIN v.f)
      [] OTHER -> <<"#">>

\* str(dict): the values' texts between separators
Repr(d, keys) ==
    IF keys = {} THEN <<"}">>
    ELSE LET key == CHOOSE x \in keys : TRUE
         IN <<"'">> \o StrOf(d[key]) \o <<"'">> \o Repr(d, keys \ {key})

---------------------------------------------------------------------------
(* get_api_key *)

YourKeyHere == <<"y", "o", "u", "r", "_", "k", "e", "y", "_", "h", "e", "r", "e">>

KeyTexts == {<<>>, <<" ">>, <<" ", "\t">>, YourKeyHere, <<"k">>, <<" ", "k", " ">>}

NoMapping == [x \in {} |-> None]
Unavailable == [k |-> "unavailable"]

\* st.secrets: streamlit missing, no such secret, or a secret
SecretStores ==
    {Unavailable, NoMapping} \cup {[OPENAQ_API_KEY |-> Text(t)] : t \in KeyTexts}

\* os.environ
Environs == {NoMapping} \cup {[OPENAQ_API_KEY |-> Text(t)] : t \in KeyTexts}

\* lines 32-45: the secret when it is truthy, else the environment variable
ResolveKey(secrets, environ) ==
    LET fromSecrets ==
            IF IsDict(secrets) /\ "OPENAQ_API_KEY" \in DOMAIN secrets
            THEN secrets["OPENAQ_API_KEY"] ELSE None
    IN IF ~Truthy(fromSecrets) THEN Get(environ, "OPENAQ_API_KEY") ELSE fromSecrets

\* line 48, without the strip test
KeyRejectedNoStrip(key) == ~Truthy(key) \/ key.c = YourKeyHere

\* line 48
KeyRejected(key) == ~Truthy(key) \/ key.c = YourKeyHere \/ Strip(key.c) = <<>>

---------------------------------------------------------------------------
(* Exceptions and the caller's handlers *)

NoError == [type |-> "none", msg |-> "", params |-> NoMapping]
Raise(type, msg, params) == [type |-> type, msg |-> msg, params |-> params]

\* app.py, lines 288-298: except ValueError / ConnectionError / Exception
Handler(e) ==
    CASE e.type = "ValueError" -> "config_error"
      [] e.type = "ConnectionError" -> "connection_error"
      [] OTHER -> "unexpected_error"

---------------------------------------------------------------------------
(* Frames *)

CanonicalColumns == {"datetime", "parameter", "value", "unit", "location"}

\* pd.DataFrame(): no columns
EmptyFrameBare == [columns |-> {}, rows |-> <<>>]

\* pd.DataFrame(columns=[...])
EmptyFrame == [columns |-> CanonicalColumns, rows |-> <<>>]
NoFrame == [columns |-> {}, rows |-> <<>>]

\* DataFrame.empty: some axis has length 0
Empty(f) == Len(f.rows) = 0 \/ f.columns = {}

\* pd.DataFrame(list of dicts) raises when an element is no dict
FrameRaises(records) == \E i \in 1..Len(records) : ~IsDict(records[i])

\* pd.DataFrame(list of dicts): the union of the keys, NaN where a key is missing
\* or null; a row is its index label i and its cells c
Frame(records) ==
    LET cols == UNION {DOMAIN records[i] : i \in 1..Len(records)}
    IN [columns |-> cols,
        rows |-> [i \in 1..Len(records) |->
                    [i |-> i,
                     c |-> [col \in cols |->
                              IF col \in DOMAIN records[i]
                              THEN (IF records[i][col] = None THEN NaN ELSE records[i][col])
                              ELSE NaN]]]]

Select(f, keep(_)) == [columns |-> f.columns, rows |-> SelectSeq(f.rows, keep)]

---------------------------------------------------------------------------
(* The upstream API's answers *)

MaxSites == 6

SiteLimit == 5

Timeout == [kind |-> "timeout", status |-> 0, body |-> "", results |-> <<>>]
Transport == [kind |-> "transport", status |-> 0, body |-> "", results |-> <<>>]
Http(status, body, results) ==
    [kind |-> "http", status |-> status, body |-> body, results |-> results]

NoResponse == [kind |-> "none", status |-> 0, body |-> "", results |-> <<>>]

\* what is remembered of an answer: how it ended and whether it listed anything
Class(r) == [kind |-> r.kind, status |-> r.status, body |-> r.body,
             empty |-> r.results = <<>>]

\* requests.get raised (a RequestException)
GetRaised(r) == r.kind # "http"
\* response.json() raises (a RequestException as well)
JsonRaises(r) == r.body # "json"

\* Sites the locations endpoint may list
SitePool ==
    {[id |-> Num(1), city |-> Text(London), name |-> Text(<<"A">>)],
     [id |-> Num(2), city |-> Text(Paris),
      name |-> Text(<<"L", "O", "N", "D", "O", "N", " ", "W">>)],
     [id |-> Num(3), name |-> Text(<<"l", "o", "n", "d", "o", "n", " ", "E">>)],
     [id |-> Num(0), country |-> Text(London)],
     [id |-> Num(5), city |-> Text(<<"R", "o", "m", "e">>), name |-> Text(<<"R">>)]}

SiteLists == UNION {[1..n -> SitePool] : n \in 0..MaxSites}

Failures ==
    {Timeout, Transport, Http(500, "json", <<>>), Http(200, "garbage", <<>>)}

LocationResponses == Failures \cup {Http(200, "json", l) : l \in SiteLists}

T0 == "2024-01-01T00:00:00Z"
T0b == "2024-01-01 00:00:00+00:00"
T1 == "2024-01-01T01:00:00Z"

\* the record the measurements endpoint holds for a site
Measurement(id) ==
    [datetime |-> Str(T0), parameter |-> Str("pm25"), value |-> id,
     unit |-> Str("ug/m3"), location |-> Text(London)]

\* answers to a per-site query: nothing, one record, a list pandas rejects
SiteResponses(id) ==
    Failures \cup {Http(200, "json", <<>>),
                   Http(200, "json", <<Measurement(id)>>),
                   Http(200, "json", <<Measurement(id), Num(0)>>)}

Rec(loc, v) ==
    [datetime |-> Str(T1), parameter |-> Str("no2"), value |-> Num(v), location |-> loc]

\* result lists of a direct (not site-scoped) query
DirectResults ==
    {<<>>,
     <<Rec(Text(London), 1), Rec(Text(Paris), 2)>>,
     <<Rec(Text(<<"R", "o", "m", "e">>), 1)>>,
     <<Rec(Obj([name |-> Text(Lower(London))]), 1), Rec(Text(Paris), 2)>>,
     <<Rec(Obj([city |-> Text(Paris)]), 1), Rec(Obj([name |-> Text(Paris)]), 2)>>,
     <<[locationName |-> Text(Paris), location |-> Text(London), value |-> Num(1)],
       [locationName |-> Text(London), location |-> Text(Paris), value |-> Num(2)]>>,
     <<Rec(Text(<<"S", "t", "a", " ", "L", "o", "u", "i", "s">>), 1), Rec(Text(Paris), 2)>>,
     <<[value |-> Num(1)]>>,
     <<[value |-> Num(1)], Num(0)>>}

DirectResponses ==
    Failures \cup {Http(204, "", <<>>), Http(422, "json", <<>>), Http(422, "garbage", <<>>)}
             \cup {Http(200, "json", l) : l \in DirectResults}

---------------------------------------------------------------------------
(* Requests *)

Request(url, params, key) == [url |-> url, params |-> params, key |-> key]
NoRequest == [url |-> "", params |-> NoMapping, key |-> None]

Now == Str("now")
Yesterday == Str("now - 1 day")

\* line 192
LocationParams == [limit |-> Num(20)]

\* lines 229-233
SiteParams(location_id) ==
    [location_id |-> location_id, limit |-> Num(100), date_from |-> Yesterday]

\* lines 120-134
strategies ==
    <<[limit |-> Num(50)],
      [limit |-> Num(50), date_from |-> Yesterday],
      [limit |-> Num(50), date_from |-> Yesterday, date_to |-> Now]>>


---------------------------------------------------------------------------
(* _get_locations_for_city *)

\* lines 203-206: loc.get('city') or loc.get('name') or str(loc), matched
\* against the city in lower case
SiteMatches(loc, c) ==
    /\ IsDict(loc)
    /\ LET city_name ==
               IF Truthy(Get(loc, "city")) THEN Get(loc, "city")
               ELSE IF Truthy(Get(loc, "name")) THEN Get(loc, "name")
               ELSE Text(StrOf(Obj(loc)))
       IN Truthy(city_name) /\ Contains(Lower(StrOf(city_name)), Lower(c))

\* city_locations, uncapped
FirstNAll(l, n) == l

\* city_locations[:5]
FirstN(l, n) == SubSeq(l, 1, IF Len(l) < n THEN Len(l) ELSE n)

\* lines 194-212: the candidates when the call answers 200 with a body, else []
CityLocations(r, c) ==
    IF GetRaised(r) \/ r.status # 200 \/ JsonRaises(r) THEN <<>>
    ELSE FirstN(SelectSeq(r.results, LAMBDA loc : SiteMatches(loc, c)), SiteLimit)

---------------------------------------------------------------------------
(* filter_by_city *)

\* lines 275-277 and 280-282: the nested sub-field contains the city
NestedMatch(x, field, city_lower) ==
    /\ x.k = "obj"
    /\ Contains(Lower(StrOf(IF field \in DOMAIN x.f THEN x.f[field] ELSE Text(<<>>))),
                city_lower)

\* re.search(pat, hay) for a pattern of literal characters and dots: a dot
\* stands for any character
RegexSearch(hay, pat) ==
    \E i \in 0..(Len(hay) - Len(pat)) :
        \A j \in 1..Len(pat) : pat[j] = "." \/ pat[j] = hay[i + j]

\* the flat column holds the city, as the plain substring test would see it
FlatMatchLiteral(x, city_lower) == Contains(Lower(StrOf(x)), city_lower)

\* lines 287 and 292: astype(str).str.lower().str.contains(city_lower), which
\* takes city_lower for a regular expression
FlatMatch(x, city_lower) == RegexSearch(Lower(StrOf(x)), city_lower)

\* lines 263-296
filter_by_city(f, c) ==
    LET city_lower == Lower(c)
        first_location == f.rows[1].c["location"]
        nested == /\ "location" \in f.columns
                  /\ first_location.k = "obj"
    IN IF Empty(f) THEN f
       ELSE IF nested /\ "name" \in DOMAIN first_location.f
       THEN Select(f, LAMBDA row : NestedMatch(row.c["location"], "name", city_lower))
       ELSE IF nested /\ "city" \in DOMAIN first_location.f
       THEN Select(f, LAMBDA row : NestedMatch(row.c["location"], "city", city_lower))
       ELSE IF "locationName" \in f.columns
       THEN Select(f, LAMBDA row : FlatMatch(row.c["locationName"], city_lower))
       ELSE IF "location" \in f.columns
       THEN Select(f, LAMBDA row : FlatMatch(row.c["location"], city_lower))
       ELSE f

\* lines 144-149: the filtered frame, or all of it when the filter finds nothing
DirectFrame(measurements, c) ==
    LET frame == Frame(measurements)
        df_filtered == filter_by_city(frame, c)
    IN IF ~Empty(df_filtered) THEN df_filtered ELSE frame

---------------------------------------------------------------------------
(* clean_data *)

\* pd.to_datetime(errors='coerce') of one cell: the instant, or NaT
ParseDatetime(v) ==
    CASE v.k = "ts" -> v
      [] v.k = "str" /\ v.s \in {T0, T0b} -> Ts(0)
      [] v.k = "str" /\ v.s = T1 -> Ts(1)
      [] OTHER -> NaT

\* df[col] = pd.to_datetime(df[col], errors='coerce')
ToDatetime(f, col) ==
    [columns |-> f.columns,
     rows |-> [i \in 1..Len(f.rows) |->
                 [f.rows[i] EXCEPT !.c[col] = ParseDatetime(@)]]]

Key(row, subset) == [col \in subset |-> row.c[col]]

\* hashing a key column's cell raises TypeError: a dict is unhashable
Unhashable(f, subset) ==
    \E i \in 1..Len(f.rows) : \E col \in subset : f.rows[i].c[col].k = "obj"

\* the rows at the given positions, in order
RECURSIVE Pick(_, _, _)
Pick(rows, keep, i) ==
    IF i > Len(rows) THEN <<>>
    ELSE (IF i \in keep THEN <<rows[i]>> ELSE <<>>) \o Pick(rows, keep, i + 1)

\* drop_duplicates(subset, keep='last')
DropDuplicatesKeepLast(f, subset) ==
    [columns |-> f.columns,
     rows |-> Pick(f.rows,
                   {i \in 1..Len(f.rows) :
                      \A j \in (i + 1)..Len(f.rows) :
                         Key(f.rows[j], subset) # Key(f.rows[i], subset)}, 1)]

\* drop_duplicates(subset, keep='first') where a missing timestamp equals
\* nothing, itself included
DropDuplicatesNaTDistinct(f, subset) ==
    [columns |-> f.columns,
     rows |-> Pick(f.rows,
                   {i \in 1..Len(f.rows) :
                      \/ \E col \in subset : f.rows[i].c[col] = NaT
                      \/ \A j \in 1..(i - 1) :
                            Key(f.rows[j], subset) # Key(f.rows[i], subset)}, 1)]

\* drop_duplicates(subset, keep='first')
DropDuplicates(f, subset) ==
    [columns |-> f.columns,
     rows |-> Pick(f.rows,
                   {i \in 1..Len(f.rows) :
                      \A j \in 1..(i - 1) :
                         Key(f.rows[j], subset) # Key(f.rows[i], subset)}, 1)]

\* lines 322-332
Step1(f) ==
    IF "datetime" \notin f.columns THEN f
    ELSE IF "parameter" \in f.columns
    THEN DropDuplicates(ToDatetime(f, "datetime"), {"datetime", "parameter"})
    ELSE DropDuplicates(ToDatetime(f, "datetime"), {"datetime"})

\* line 336
date_columns == {"datetime", "date", "date.utc", "dateLocal"}

\* lines 337-339
RECURSIVE Step2(_, _)
Step2(f, cols) ==
    IF cols = {} THEN f
    ELSE LET col == CHOOSE c \in cols : TRUE
         IN Step2(IF col \in f.columns THEN ToDatetime(f, col) ELSE f, cols \ {col})

\* line 343: the float64/int64 columns; a column holding anything but numbers
\* and NaN has dtype object, a parsed date column datetime64
numeric_columns(f) ==
    {col \in f.columns \ date_columns :
        \A i \in 1..Len(f.rows) : f.rows[i].c[col].k \in {"num", "nan"}}

RECURSIVE Gcd(_, _)
Gcd(a, b) == IF b = 0 THEN a ELSE Gcd(b, a % b)

Reduced(n, d) == LET g == Gcd(n, d) IN Frac(n \div g, d \div g)

\* the sum of the present values of a column, as a fraction
RECURSIVE ColumnSum(_, _, _)
ColumnSum(rows, col, i) ==
    IF i > Len(rows) THEN Frac(0, 1)
    ELSE LET rest == ColumnSum(rows, col, i + 1)
             v == rows[i].c[col]
         IN IF v.k = "num" THEN Reduced(v.n * rest.d + rest.n * v.d, v.d * rest.d)
            ELSE rest

Present(rows, col) == {i \in 1..Len(rows) : rows[i].c[col].k = "num"}

\* Series.mean(): NaN values skipped; NaN when there is no value
Mean(rows, col) ==
    LET total == ColumnSum(rows, col, 1)
        count == Cardinality(Present(rows, col))
    IN IF count = 0 THEN NaN ELSE Reduced(total.n, total.d * count)

\* lines 345-350: fill a numeric column's NaN with its mean
Impute(f, numeric) ==
    [columns |-> f.columns,
     rows |-> [i \in 1..Len(f.rows) |->
                 [f.rows[i] EXCEPT !.c =
                    [col \in f.columns |->
                       IF col \in numeric /\ @[col].k = "nan"
                       THEN Mean(f.rows, col) ELSE @[col]]]]]

\* ascending, NaT last
Before(a, b) == a.k = "ts" /\ (b.k = "nat" \/ a.t < b.t)

RECURSIVE Insert(_, _)
Insert(sorted, row) ==
    IF sorted = <<>> THEN <<row>>
    ELSE IF Before(row.c["datetime"], Head(sorted).c["datetime"])
    THEN <<row>> \o sorted
    ELSE <<Head(sorted)>> \o Insert(Tail(sorted), row)

RECURSIVE SortRows(_)
SortRows(rows) ==
    IF rows = <<>> THEN <<>>
    ELSE Insert(SortRows(SubSeq(rows, 1, Len(rows) - 1)), rows[Len(rows)])

\* lines 353-354
sort_values(f) ==
    IF "datetime" \in f.columns
    THEN [columns |-> f.columns, rows |-> SortRows(f.rows)] ELSE f

\* lines 327-332 raise TypeError when a parameter cell is a dict
CleanRaises(f) ==
    /\ ~Empty(f)
    /\ "datetime" \in f.columns
    /\ "parameter" \in f.columns
    /\ Unhashable(f, {"parameter"})

\* clean_data imputing before it removes the duplicates
clean_dataImputeFirst(f) ==
    IF Empty(f) THEN f
    ELSE sort_values(Step2(Step1(Impute(f, numeric_columns(f))), date_columns))

\* clean_data answering an empty input with a fresh canonical frame
clean_dataFreshEmpty(f) ==
    IF Empty(f) THEN EmptyFrame
    ELSE sort_values(Impute(Step2(Step1(f), date_columns), numeric_columns(f)))

\* lines 314-356
clean_data(f) ==
    IF Empty(f) THEN f
    ELSE sort_values(Impute(Step2(Step1(f), date_columns), numeric_columns(f)))

---------------------------------------------------------------------------
(* The pipeline: get_cached_data(city) in app.py *)

Init ==
    /\ pc = "get_api_key"
    /\ city \in Cities
    /\ credential = None
    /\ api_key = None
    /\ issued = [locations |-> 0, site |-> 0, direct |-> 0]
    /\ request = NoRequest
    /\ response = NoResponse
    /\ lookup = Class(NoResponse)
    /\ tried = <<>>
    /\ locations = <<>>
    /\ site = 0
    /\ all_measurements = <<>>
    /\ attempt = 0
    /\ raw_data = NoFrame
    /\ df = NoFrame
    /\ error = NoError
    /\ view = "loading"

\* an exception reaches the handlers of app.py, lines 288-298
Raised(e) ==
    /\ error' = e
    /\ view' = Handler(e)
    /\ pc' = "done"

\* fetch_aqi_data, line 79: get_api_key
GetApiKey ==
    /\ pc = "get_api_key"
    /\ \E secrets \in SecretStores, environ \in Environs :
          LET key == ResolveKey(secrets, environ)
          IN /\ credential' = key
             /\ IF KeyRejected(key)
                THEN /\ Raised(Raise("ValueError", "API key not found", NoMapping))
                     /\ UNCHANGED api_key
                ELSE /\ api_key' = Text(Strip(key.c))
                     /\ pc' = "locations"
                     /\ UNCHANGED <<error, view>>
    /\ UNCHANGED <<city, issued, request, response, lookup, tried, locations, site,
                   all_measurements, attempt, raw_data, df>>

\* fetch_measurements_direct, lines 108-114: _get_locations_for_city
GetLocations ==
    /\ pc = "locations"
    /\ \E r \in LocationResponses :
          /\ response' = r
          /\ lookup' = Class(r)
          /\ locations' = CityLocations(r, city)
    /\ request' = Request("locations", LocationParams, api_key)
    /\ issued' = [issued EXCEPT !.locations = @ + 1]
    /\ IF locations' # <<>>
       THEN pc' = "sites" /\ site' = 1 /\ UNCHANGED attempt
       ELSE pc' = "direct" /\ attempt' = 1 /\ UNCHANGED site
    /\ UNCHANGED <<city, credential, api_key, tried, all_measurements, raw_data, df,
                   error, view>>

\* _get_measurements_for_locations, lines 224-242: one turn of the loop
QuerySite ==
    /\ pc = "sites"
    /\ site <= Len(locations)
    /\ LET location_id == Get(locations[site], "id")
       IN IF ~Truthy(location_id)
          THEN UNCHANGED <<issued, request, response, all_measurements>>
          ELSE /\ request' = Request("measurements", SiteParams(location_id), api_key)
               /\ issued' = [issued EXCEPT !.site = @ + 1]
               /\ \E r \in SiteResponses(location_id) :
                     /\ response' = r
                     /\ all_measurements' =
                           IF GetRaised(r) \/ r.status # 200 \/ JsonRaises(r)
                           THEN all_measurements
                           ELSE all_measurements \o r.results
    /\ site' = site + 1
    /\ UNCHANGED <<pc, city, credential, api_key, lookup, tried, locations, attempt,
                   raw_data, df, error, view>>

\* lines 244-247 and the return of line 111; when pd.DataFrame raises, the
\* except of line 112 abandons the strategy (its locals are dead from then on)
SitesDone ==
    /\ pc = "sites"
    /\ site > Len(locations)
    /\ IF all_measurements # <<>> /\ FrameRaises(all_measurements)
       THEN /\ pc' = "direct"
            /\ attempt' = 1
            /\ locations' = <<>>
            /\ UNCHANGED raw_data
       ELSE /\ raw_data' = IF all_measurements # <<>> THEN Frame(all_measurements)
                           ELSE EmptyFrame
            /\ pc' = "clean"
            /\ UNCHANGED <<attempt, locations>>
    /\ site' = 0
    /\ all_measurements' = <<>>
    /\ UNCHANGED <<city, credential, api_key, issued, request, response, lookup, tried,
                   df, error, view>>

\* a direct attempt whose final failure is swallowed like the earlier ones
DirectOutcomeSwallowed(r, i) ==
    LET last == i = Len(strategies)
        failed == \/ GetRaised(r)
                  \/ r.status = 200 /\ JsonRaises(r)
                  \/ r.status \notin {200, 422} /\ r.status >= 400
    IN CASE ~failed /\ r.status = 200 /\ r.results # <<>> ->
               IF FrameRaises(r.results) THEN "TypeError" ELSE "return"
         [] ~failed /\ r.status = 422 /\ last -> "ValueError"
         [] OTHER -> IF last THEN "empty" ELSE "continue"

\* a direct attempt where a 200 with an empty result list ends the chain
DirectOutcomeEmptyEnds(r, i) ==
    LET last == i = Len(strategies)
        failed == \/ GetRaised(r)
                  \/ r.status = 200 /\ JsonRaises(r)
                  \/ r.status = 422 /\ last /\ JsonRaises(r)
                  \/ r.status \notin {200, 422} /\ r.status >= 400
    IN CASE failed -> IF last THEN "ConnectionError" ELSE "continue"
         [] ~failed /\ r.status = 200 /\ r.results # <<>> ->
               IF FrameRaises(r.results) THEN "TypeError" ELSE "return"
         [] ~failed /\ r.status = 200 -> "empty"
         [] ~failed /\ r.status = 422 /\ last -> "ValueError"
         [] OTHER -> IF last THEN "empty" ELSE "continue"

\* what one direct attempt leads to
DirectOutcome(r, i) ==
    LET last == i = Len(strategies)
        failed == \/ GetRaised(r)
                  \/ r.status = 200 /\ JsonRaises(r)
                  \/ r.status = 422 /\ last /\ JsonRaises(r)
                  \/ r.status \notin {200, 422} /\ r.status >= 400
    IN CASE failed -> IF last THEN "ConnectionError" ELSE "continue"
         [] ~failed /\ r.status = 200 /\ r.results # <<>> ->
               IF FrameRaises(r.results) THEN "TypeError" ELSE "return"
         [] ~failed /\ r.status = 422 /\ last -> "ValueError"
         [] OTHER -> IF last THEN "empty" ELSE "continue"

\* fetch_measurements_direct, lines 136-181: one turn of the strategies loop
DirectAttempt ==
    /\ pc = "direct"
    /\ request' = Request("measurements", strategies[attempt], api_key)
    /\ issued' = [issued EXCEPT !.direct = @ + 1]
    /\ \E r \in DirectResponses :
          /\ response' = r
          /\ tried' = Append(tried, Class(r))
          /\ LET outcome == DirectOutcome(r, attempt)
             IN CASE outcome = "continue" ->
                       /\ attempt' = attempt + 1
                       /\ UNCHANGED <<pc, raw_data, error, view>>
                  [] outcome = "return" ->
                       /\ raw_data' = DirectFrame(r.results, city)
                       /\ pc' = "clean"
                       /\ UNCHANGED <<attempt, error, view>>
                  [] outcome = "empty" ->
                       /\ raw_data' = EmptyFrame
                       /\ pc' = "clean"
                       /\ UNCHANGED <<attempt, error, view>>
                  [] outcome = "ValueError" ->
                       /\ Raised(Raise("ValueError", "API validation error (422)",
                                       strategies[attempt]))
                       /\ UNCHANGED <<attempt, raw_data>>
                  [] outcome = "ConnectionError" ->
                       /\ Raised(Raise("ConnectionError", "Failed to fetch measurements",
                                       NoMapping))
                       /\ UNCHANGED <<attempt, raw_data>>
                  [] OTHER ->
                       /\ Raised(Raise("TypeError", "", NoMapping))
                       /\ UNCHANGED <<attempt, raw_data>>
    /\ UNCHANGED <<city, credential, api_key, lookup, locations, site, all_measurements,
                   df>>

\* app.py, lines 95-112: clean_data, then the empty-result branch
CleanData ==
    /\ pc = "clean"
    /\ IF CleanRaises(raw_data)
       THEN /\ Raised(Raise("TypeError", "unhashable type: 'dict'", NoMapping))
            /\ UNCHANGED df
       ELSE /\ df' = clean_data(raw_data)
            /\ view' = IF Empty(df') THEN "no_data" ELSE "success"
            /\ pc' = "done"
            /\ UNCHANGED error
    /\ UNCHANGED <<city, credential, api_key, issued, request, response, lookup, tried,
                   locations, site, all_measurements, attempt, raw_data>>

Next == GetApiKey \/ GetLocations \/ QuerySite \/ SitesDone \/ DirectAttempt \/ CleanData

Spec == Init /\ [][Next]_vars

---------------------------------------------------------------------------
(* clean_data on its own: every raw table within the bounds *)

MaxRows == 3

Without(r, key) == [x \in DOMAIN r \ {key} |-> r[x]]

\* records as the API may shape them
RecordPool ==
    {[datetime |-> Str(t), parameter |-> Str(p), value |-> v, location |-> Text(London)] :
        t \in {T0, T0b, "soon"}, p \in {"pm25", "no2"}, v \in {Num(10), Num(20), None}}

Shapes ==
    {"flat", "no parameter", "no datetime", "nested parameter", "nested datetime",
     "nested location", "no keys"}

Shaped(r, shape) ==
    CASE shape = "no parameter" -> Without(r, "parameter")
      [] shape = "no datetime" -> Without(r, "datetime")
      [] shape = "nested parameter" -> [r EXCEPT !.parameter = Obj([name |-> @])]
      [] shape = "nested datetime" -> [r EXCEPT !.datetime = Obj([utc |-> @])]
      [] shape = "nested location" -> [r EXCEPT !.location = Obj([name |-> @])]
      [] shape = "no keys" -> NoMapping
      [] OTHER -> r

RecordLists == UNION {[1..n -> RecordPool] : n \in 1..MaxRows}

\* zero-row tables, whatever columns they carry
EmptyTables == {[columns |-> c, rows |-> <<>>] : c \in SUBSET (CanonicalColumns \cup {"id"})}

CleanInit ==
    /\ pc = "clean"
    /\ \/ raw_data \in EmptyTables
       \/ \E l \in RecordLists, shape \in Shapes :
             raw_data = Frame([i \in 1..Len(l) |-> Shaped(l[i], shape)])
    /\ city = London
    /\ credential = None
    /\ api_key = None
    /\ issued = [locations |-> 0, site |-> 0, direct |-> 0]
    /\ request = NoRequest
    /\ response = NoResponse
    /\ lookup = Class(NoResponse)
    /\ tried = <<>>
    /\ locations = <<>>
    /\ site = 0
    /\ all_measurements = <<>>
    /\ attempt = 0
    /\ df = NoFrame
    /\ error = NoError
    /\ view = "loading"

CleanNext == CleanData

CleanSpec == CleanInit /\ [][CleanNext]_vars

---------------------------------------------------------------------------
(* Properties of fetch_aqi_data *)

\* fetch_aqi_data is over: it returned a frame, or an exception left it
FetchReturned == pc = "clean" \/ (pc = "done" /\ raw_data # NoFrame)
FetchRaised == pc = "done" /\ raw_data = NoFrame
NoRequestIssued == issued.locations = 0 /\ issued.site = 0 /\ issued.direct = 0

Blank(text) == \A i \in 1..Len(text) : text[i] \in {" ", "\t", "\n"}

\* the resolved credential is absent, blank or the placeholder
BadCredential ==
    \/ credential.k = "none"
    \/ credential.k = "text" /\ (Blank(credential.c) \/ credential.c = YourKeyHere)

\* C1: once get_api_key has run on a credential that is absent, blank or the
\* placeholder 'your_key_here', fetch has failed with the configuration
\* ValueError and not one HTTP request has been issued.
C1_ConfigErrorBeforeAnyRequest ==
    (pc # "get_api_key" /\ BadCredential) =>
        /\ FetchRaised
        /\ error = Raise("ValueError", "API key not found", NoMapping)
        /\ NoRequestIssued

C1_Witness ==
    /\ pc = "done"
    /\ credential = Text(<<" ", "\t">>)
    /\ error.type = "ValueError"
    /\ NoRequestIssued

Is422(c) == c.kind = "http" /\ c.status = 422 /\ c.body = "json"

\* C2: when the site-based path yielded nothing and each of the three direct
\* attempts was rejected with HTTP 422, fetch has raised an error that the
\* caller does not handle as a configuration error, whose type differs from
\* the bad-credential error's, and which carries the last attempt's parameters.
C2_UpstreamErrorIsDistinct ==
    (pc = "done" /\ Len(tried) = 3 /\ \A i \in 1..3 : Is422(tried[i])) =>
        /\ FetchRaised
        /\ error.params = strategies[3]
        /\ error.type # "ValueError"
        /\ view # "config_error"

Failing(c) == c.kind \in {"timeout", "transport"} \/ (c.kind = "http" /\ c.status # 200)

\* every request so far timed out, failed in transport or answered a status
\* other than 200, a 422 on the final direct attempt excepted
EveryAttemptFailed ==
    /\ Failing(lookup)
    /\ \A i \in 1..Len(tried) : Failing(tried[i])
    /\ ~(Len(tried) = 3 /\ tried[3].status = 422)

FiveColumnEmpty(f) ==
    f.rows = <<>> /\ f.columns = {"datetime", "parameter", "value", "unit", "location"}

\* C3 as claimed: when every attempt failed, fetch has returned the zero-row
\* five-column frame and raised nothing.
C3_AlwaysEmptyFrame ==
    ((FetchReturned \/ FetchRaised) /\ issued.locations = 1 /\ EveryAttemptFailed) =>
        FetchReturned /\ FiveColumnEmpty(raw_data) /\ error = NoError

\* C3 amended: when every attempt failed, all three direct attempts were made;
\* fetch raised ConnectionError if the third one timed out, failed in transport
\* or answered a status of 400 or more, and returned the zero-row five-column
\* frame otherwise.
C3_EmptyFrameUnlessLastAttemptFails ==
    ((FetchReturned \/ FetchRaised) /\ issued.locations = 1 /\ EveryAttemptFailed) =>
        /\ Len(tried) = 3
        /\ issued.site = 0
        /\ IF tried[3].kind \in {"timeout", "transport"} \/ tried[3].status >= 400
           THEN FetchRaised /\ error.type = "ConnectionError" /\ view = "connection_error"
           ELSE FetchReturned /\ FiveColumnEmpty(raw_data) /\ error = NoError

C3_Witness ==
    /\ pc = "done"
    /\ EveryAttemptFailed
    /\ Len(tried) = 3
    /\ tried[1].kind = "timeout"
    /\ tried[2].status = 422
    /\ tried[3].kind = "transport"
    /\ error.type = "ConnectionError"

Empty200(c) == c.kind = "http" /\ c.status = 200 /\ c.body = "json" /\ c.empty

\* C4: when every request was answered 200 with zero results, fetch has
\* returned the zero-row five-column frame after the three direct attempts,
\* clean_data passes it through, and the caller shows "no data", not an error.
C4_AllEmptyMeansNoData ==
    ((FetchReturned \/ FetchRaised) /\ Empty200(lookup)
        /\ \A i \in 1..Len(tried) : Empty200(tried[i])) =>
        /\ FetchReturned
        /\ FiveColumnEmpty(raw_data)
        /\ issued = [locations |-> 1, site |-> 0, direct |-> 3]
        /\ pc = "done" => (FiveColumnEmpty(df) /\ view = "no_data" /\ error = NoError)

C4_Witness ==
    /\ pc = "done"
    /\ Empty200(lookup)
    /\ Len(tried) = 3
    /\ \A i \in 1..3 : Empty200(tried[i])
    /\ view = "no_data"

\* C5: fetch never ends without having issued a direct fallback request
\* unless the site-based path yielded records: not when the lookup found no
\* candidate, not when the lookup failed, not when every per-site query came
\* back empty or failed.
C5_FallbackWheneverSitesYieldNothing ==
    ((FetchReturned \/ FetchRaised) /\ issued.locations = 1 /\ issued.direct = 0) =>
        raw_data.rows # <<>>

\* the number of steps fetch and its caller may still take
StepsLeft ==
    CASE pc = "get_api_key" -> 13
      [] pc = "locations" -> 12
      [] pc = "sites" -> 11 - site
      [] pc = "direct" -> 5 - attempt
      [] pc = "clean" -> 1
      [] OTHER -> 0

\* C10: a fetch issues at most one locations request, 5 per-site requests and
\* 3 direct requests, 9 in all, and it ends: until it has returned or raised
\* it can always take a step, and every step brings its end nearer.
C10_BoundedRequests ==
    /\ [](/\ issued.locations <= 1
          /\ issued.site <= 5
          /\ issued.direct <= 3
          /\ issued.locations + issued.site + issued.direct <= 9
          /\ StepsLeft >= 0
          /\ (FetchReturned \/ FetchRaised \/ ENABLED Next))
    /\ [][StepsLeft' < StepsLeft]_vars

C10_Witness ==
    /\ FetchReturned
    /\ issued = [locations |-> 1, site |-> 5, direct |-> 3]

Ok200(c) == c.kind = "http" /\ c.status = 200 /\ c.body = "json"
Full200(c) == Ok200(c) /\ ~c.empty

\* the frame holds some of the rows of the table built from the records
RowsOf(f, records) ==
    /\ f.columns = Frame(records).columns
    /\ \A k \in 1..Len(f.rows) :
          \E j \in 1..Len(records) : f.rows[k] = Frame(records).rows[j]

\* the direct attempts so far were issued in the order of the strategies
InStrategyOrder ==
    /\ issued.direct = Len(tried)
    /\ Len(tried) <= Len(strategies)
    /\ Len(tried) > 0 => request = Request("measurements", strategies[Len(tried)], api_key)

\* the table of the records of the last answer was built and returned, or
\* building it failed
BuiltFromLastAnswer ==
    IF FrameRaises(response.results)
    THEN FetchRaised /\ error.type = "TypeError"
    ELSE /\ FetchReturned
         /\ IF response.results = <<>> THEN FiveColumnEmpty(raw_data)
            ELSE raw_data.rows # <<>> /\ RowsOf(raw_data, response.results)

\* C11 as claimed: the direct attempts are issued in the order of the
\* strategies, and the first one answered 200 with a parseable body, its
\* result list empty or not, is the last one issued: fetch has ended with the
\* table built from that answer.
C11_First200EndsChain ==
    /\ InStrategyOrder
    /\ \A i \in 1..Len(tried) :
          Ok200(tried[i]) => (i = Len(tried) /\ pc # "direct" /\ BuiltFromLastAnswer)

\* C11 amended: the direct attempts are issued in the order of the strategies.
\* The first one answered 200 with a parseable body and a non-empty result
\* list is the last one issued, and fetch has ended with the table built from
\* that answer (or with the error of building it).  One answered 200 with an
\* empty result list does not end the chain: the next attempt follows, whose
\* outcome may be an error, and after the last attempt fetch returns the
\* zero-row five-column frame.
C11_FirstNonEmpty200EndsChain ==
    /\ InStrategyOrder
    /\ \A i \in 1..Len(tried) :
          /\ Full200(tried[i]) => (i = Len(tried) /\ pc # "direct" /\ BuiltFromLastAnswer)
          /\ Empty200(tried[i]) =>
                IF i < Len(strategies)
                THEN Len(tried) > i \/ (pc = "direct" /\ attempt = i + 1)
                ELSE pc # "direct" /\ BuiltFromLastAnswer

\* an empty 200, then a 200 with records: the second answer's table is returned
C11_Witness ==
    /\ FetchReturned
    /\ Len(tried) = 2
    /\ Empty200(tried[1])
    /\ Full200(tried[2])
    /\ raw_data.rows # <<>>

\* an empty 200 on the first attempt, and fetch ends with a later attempt's error
C11_LaterErrorWitness ==
    /\ FetchRaised
    /\ Len(tried) = 3
    /\ Empty200(tried[1])
    /\ error.type = "ConnectionError"

\* the field of the table that bears the location, resolved once per table in
\* the order nested name, nested city, flat locationName, flat location
LocationField(f) ==
    LET first == f.rows[1].c["location"]
        nested == "location" \in f.columns /\ first.k = "obj"
    IN CASE nested /\ "name" \in DOMAIN first.f -> <<"location", "name">>
         [] nested /\ "name" \notin DOMAIN first.f /\ "city" \in DOMAIN first.f ->
               <<"location", "city">>
         [] OTHER -> IF "locationName" \in f.columns THEN <<"locationName">>
                     ELSE IF "location" \in f.columns THEN <<"location">>
                     ELSE <<>>

\* the row's location-bearing field contains the city, letter case aside
CityInLocation(f, row, c) ==
    LET field == LocationField(f)
    IN CASE Len(field) = 2 ->
               /\ row.c[field[1]].k = "obj"
               /\ field[2] \in DOMAIN row.c[field[1]].f
               /\ Contains(Lower(StrOf(row.c[field[1]].f[field[2]])), Lower(c))
         [] Len(field) = 1 -> FlatMatchLiteral(row.c[field[1]], Lower(c))
         [] OTHER -> FALSE

\* fetch returned the table of a direct attempt that brought records
DirectFetchReturned ==
    /\ FetchReturned
    /\ Len(tried) > 0
    /\ Full200(tried[Len(tried)])
    /\ ~Empty(Frame(response.results))

\* C12: the table fetch returns after a direct attempt that brought records is
\* never empty: it holds the rows whose location-bearing field contains the
\* city as a substring, letter case aside, when there is such a row, and all
\* the rows otherwise.
C12_CitySubsetOrWholeTable ==
    DirectFetchReturned =>
        LET whole == Frame(response.results)
            subset == SelectSeq(whole.rows, LAMBDA row : CityInLocation(whole, row, city))
        IN /\ ~Empty(raw_data)
           /\ raw_data.columns = whole.columns
           /\ raw_data.rows = IF subset # <<>> THEN subset ELSE whole.rows

\* the field of the site is a text that contains the city, letter case aside
FieldHasCity(loc, field, c) ==
    /\ field \in DOMAIN loc
    /\ loc[field].k = "text"
    /\ Contains(Lower(loc[field].c), Lower(c))

\* the site's display name or its city field contains the city
NameOrCityHasCity(loc, c) ==
    IsDict(loc) /\ (FieldHasCity(loc, "name", c) \/ FieldHasCity(loc, "city", c))

\* the locations lookup was answered 200 with a list of sites, and nothing
\* was requested since
LookupAnswered == issued = [locations |-> 1, site |-> 0, direct |-> 0] /\ Ok200(lookup)

\* C13: after a lookup answered with a list of sites, the candidates are the
\* first (at most) 5 of the listed sites, in the order listed, whose display
\* name or city field contains the city as a substring, letter case aside.
C13_CandidatesMatchNameOrCity ==
    LookupAnswered =>
        LET matching == SelectSeq(response.results, LAMBDA loc : NameOrCityHasCity(loc, city))
        IN locations = SubSeq(matching, 1, IF Len(matching) < 5 THEN Len(matching) ELSE 5)

---------------------------------------------------------------------------
(* Properties of clean_data *)

Cleaned == pc = "done" /\ error = NoError

\* the (parsed datetime, parameter) pair of a raw row
Pair(row) == <<ParseDatetime(row.c["datetime"]), row.c["parameter"]>>

\* the first raw row, in original order, that carries the pair of row n
FirstWithPair(rows, n) ==
    rows[CHOOSE j \in 1..n : /\ Pair(rows[j]) = Pair(rows[n])
                             /\ \A h \in 1..(j - 1) : Pair(rows[h]) # Pair(rows[n])]

\* the output rows that carry the pair of a raw row
Hits(first) ==
    {k \in 1..Len(df.rows) :
        <<df.rows[k].c["datetime"], df.rows[k].c["parameter"]>> = Pair(first)}

\* the raw rows clean_data kept, and the raw row an output row stems from
KeptRows == SelectSeq(raw_data.rows, LAMBDA r : \E k \in 1..Len(df.rows) : df.rows[k].i = r.i)
RawRow(row) == raw_data.rows[CHOOSE j \in 1..Len(raw_data.rows) : raw_data.rows[j].i = row.i]

Missing(rows, col) == {i \in 1..Len(rows) : rows[i].c[col].k = "nan"}
PartlyMissing(rows, col) == Missing(rows, col) # {} /\ Present(rows, col) # {}

\* m is the mean of the present values of the column: m * count = sum
IsMeanOf(m, rows, col) ==
    LET total == ColumnSum(rows, col, 1)
    IN /\ m.k = "num"
       /\ m.n * Cardinality(Present(rows, col)) * total.d = total.n * m.d

\* the table has datetime and parameter columns and a nested parameter cell
NestedParameter ==
    /\ {"datetime", "parameter"} \subseteq raw_data.columns
    /\ \E n \in 1..Len(raw_data.rows) : raw_data.rows[n].c["parameter"].k = "obj"

ImputedFrom(rows, col) ==
    /\ Missing(df.rows, col) = {}
    /\ \A k \in 1..Len(df.rows) :
          RawRow(df.rows[k]).c[col].k = "nan" => IsMeanOf(df.rows[k].c[col], rows, col)
    /\ IsMeanOf(Mean(df.rows, col), rows, col)

\* C7 as claimed: where clean_data returns, a numeric column of the input with
\* some but not all entries missing is imputed from the mean of the input's
\* present values.
C7_ImputedFromInputMean ==
    Cleaned =>
        \A col \in numeric_columns(raw_data) :
            PartlyMissing(raw_data.rows, col) => ImputedFrom(raw_data.rows, col)

\* C7 amended: clean_data raises TypeError when the table has datetime and
\* parameter columns and a nested parameter cell; otherwise a numeric column
\* with some but not all entries missing among the rows that survive the
\* deduplication is imputed from the mean of the present values of those rows.
C7_ImputedFromKeptMean ==
    (pc = "done" /\ raw_data.rows # <<>>) =>
        IF NestedParameter THEN error.type = "TypeError"
        ELSE /\ error = NoError
             /\ \A col \in numeric_columns(raw_data) :
                   PartlyMissing(KeptRows, col) => ImputedFrom(KeptRows, col)

\* values [10, missing, 20] became [10, 15, 20]
C7_Witness ==
    /\ Cleaned
    /\ Len(raw_data.rows) = 3
    /\ Len(df.rows) = 3
    /\ \A k \in 1..3 : df.rows[k].i = k
    /\ <<raw_data.rows[1].c["value"], raw_data.rows[2].c["value"],
         raw_data.rows[3].c["value"]>> = <<Num(10), NaN, Num(20)>>
    /\ <<df.rows[1].c["value"], df.rows[2].c["value"], df.rows[3].c["value"]>>
          = <<Num(10), Num(15), Num(20)>>

\* C8: clean_data never raises: whatever the raw table, it returns a frame.
C8_CleanNeverRaises == pc = "done" => error = NoError

\* C9 as claimed: a zero-row input, whatever its columns, comes back as a
\* zero-row table with the five canonical columns.
C9_EmptyInputGetsCanonicalColumns ==
    (pc = "done" /\ raw_data.rows = <<>>) => (error = NoError /\ FiveColumnEmpty(df))

\* C9 amended: a zero-row input comes back unchanged, without error: zero rows
\* and the columns of the input, the five canonical ones exactly when the
\* input carries them.
C9_EmptyInputUnchanged ==
    (pc = "done" /\ raw_data.rows = <<>>) =>
        /\ error = NoError
        /\ df.rows = <<>>
        /\ df.columns = raw_data.columns
        /\ FiveColumnEmpty(df) <=> FiveColumnEmpty(raw_data)

C9_Witness ==
    /\ pc = "done"
    /\ error = NoError
    /\ raw_data = [columns |-> {"id"}, rows |-> <<>>]
    /\ df = [columns |-> {"id"}, rows |-> <<>>]

\* the raw row's timestamp cannot be parsed
Unparseable(row) == ParseDatetime(row.c["datetime"]) = NaT

\* the raw row's parameter, when there is such a column
ParameterOf(row) == IF "parameter" \in DOMAIN row.c THEN row.c["parameter"] ELSE None

\* the rows of the output that carry the missing-timestamp marker
MissingTimestampRows == {k \in 1..Len(df.rows) : df.rows[k].c["datetime"] = NaT}

\* C14: where clean_data returns a table with a datetime column, no two of its
\* missing-timestamp rows have the same parameter (there is at most one such
\* row when there is no parameter column), and of the raw rows whose timestamp
\* cannot be parsed exactly the first one of each parameter is in the output,
\* marked as missing; every later one is dropped.
C14_OneMissingTimestampRowPerParameter ==
    (Cleaned /\ "datetime" \in raw_data.columns) =>
        /\ \A j, k \in MissingTimestampRows :
              ParameterOf(df.rows[j]) = ParameterOf(df.rows[k]) => j = k
        /\ \A n \in 1..Len(raw_data.rows) :
              Unparseable(raw_data.rows[n]) =>
                 LET later == \E h \in 1..(n - 1) :
                                 /\ Unparseable(raw_data.rows[h])
                                 /\ ParameterOf(raw_data.rows[h]) = ParameterOf(raw_data.rows[n])
                 IN IF later
                    THEN \A k \in 1..Len(df.rows) : df.rows[k].i # raw_data.rows[n].i
                    ELSE \E k \in MissingTimestampRows : df.rows[k].i = raw_data.rows[n].i

\* three raw rows of one parameter, the first and the third with a timestamp
\* that cannot be parsed: the third is dropped, the first sorts last
C14_Witness ==
    /\ Cleaned
    /\ Len(raw_data.rows) = 3
    /\ "parameter" \in raw_data.columns
    /\ raw_data.rows[1].c["datetime"] = Str("soon")
    /\ raw_data.rows[2].c["datetime"] = Str(T0)
    /\ raw_data.rows[3].c["datetime"] = Str("soon")
    /\ raw_data.rows[1].c["parameter"] = raw_data.rows[3].c["parameter"]
    /\ raw_data.rows[1].c["value"] # raw_data.rows[3].c["value"]
    /\ Len(df.rows) = 2
    /\ df.rows[1].i = 2
    /\ df.rows[2].i = 1
    /\ df.rows[2].c["datetime"] = NaT

====
